---- MODULE Spec2Model ----
(***************************************************************************)
(* The Ellipse component of devto-react-leaflet-ellipse, in the three      *)
(* forms the repository gives it:                                          *)
(*   "simple"     the effect without a dependency list (README, 26-43)     *)
(*   "useRef"     separate mount and update effects (README, 140-174)      *)
(*   "createPath" createEllipse / updateEllipse handed to                  *)
(*                createPathComponent (Ellipse.jsx, 516-543), used by Map  *)
(*                with a Popup child (Map.jsx, 36-48)                      *)
(* A state is the heap of Leaflet objects (ellipse instances, the layers   *)
(* of every container, the context objects) and, per Ellipse element of    *)
(* Map's list, its hooks' cells and the effects React still has to run.    *)
(***************************************************************************)
EXTENDS Integers, Sequences, FiniteSets, TLC

\* ------------------------------------------------------------- bounds
\* Re-evaluations after the first render, over all Ellipses, replacements of
\* the inherited context included.
MaxRerenders == 2

\* ------------------------------------------------------------ objects
Ellipses == {1, 2}
Impls == {"simple", "useRef", "createPath"}

InstNames == <<"e1", "e2", "e3", "e4", "e5", "e6", "e7", "e8", "e9", "e10">>
CtxNames == <<"c1", "c2", "c3", "c4", "c5", "c6", "c7", "c8">>
NoObj == "none"
TheMap == "map"
LayerGroups == {"lg1", "lg2"}
Containers == LayerGroups \cup {TheMap}
InstSet == {InstNames[n] : n \in 1..Len(InstNames)}
CtxSet == {CtxNames[n] : n \in 1..Len(CtxNames)}

Undefined == -1

Mutators == {"setLatLng", "setRadius", "setTilt", "setStyle"}

\* A value the instance rejects: the mutator given it throws.
Invalid == 2

\* An array or record prop is a reference; two references hold the same
\* content when ValOf agrees; the n-th re-render of Map builds the references
\* FreshRef(n, _). A number prop (tilt) is its own value.
ValOf(ref) == ref % 3
FreshRef(n, val) == 3 * n + val
Flip(val) == IF val = 0 THEN 1 ELSE 0

Attrs == {"center", "radii", "tilt", "options"}
BadChanges == {"badCenter", "badRadii", "badTilt", "badOptions"}
Changes == {"none", "center", "radii", "tilt", "options", "realloc"} \cup BadChanges

InitialProps == [center |-> 0, radii |-> 0, tilt |-> 15, options |-> 0]

OtherTilt(t) == IF t = 15 THEN 20 ELSE 15

\* Props with every attribute changed, and the attribute named by a bad
\* change set to a value the instance rejects.
ChangeAll(p, ch, n) ==
  [center |-> FreshRef(n, IF ch = "badCenter" THEN Invalid ELSE Flip(ValOf(p.center))),
   radii |-> FreshRef(n, IF ch = "badRadii" THEN Invalid ELSE Flip(ValOf(p.radii))),
   tilt |-> IF ch = "badTilt" THEN Invalid ELSE OtherTilt(p.tilt),
   options |-> FreshRef(n, IF ch = "badOptions" THEN Invalid ELSE Flip(ValOf(p.options)))]

\* The props a re-evaluation passes, from the previous ones: nothing changed
\* (the same references), one attribute changed, center and radii rebuilt
\* with the same content (Map.jsx builds both arrays anew on every render),
\* or every attribute changed with one of them given a rejected value.
ApplyChange(p, ch, n) ==
  CASE ch = "none" -> p
    [] ch = "center" -> [p EXCEPT !.center = FreshRef(n, Flip(ValOf(p.center)))]
    [] ch = "radii" -> [p EXCEPT !.radii = FreshRef(n, Flip(ValOf(p.radii)))]
    [] ch = "tilt" -> [p EXCEPT !.tilt = OtherTilt(p.tilt)]
    [] ch = "options" -> [p EXCEPT !.options = FreshRef(n, Flip(ValOf(p.options)))]
    [] ch = "realloc" -> [p EXCEPT !.center = FreshRef(n, ValOf(p.center)),
                                   !.radii = FreshRef(n, ValOf(p.radii))]
    [] OTHER -> ChangeAll(p, ch, n)

VARIABLES
  impl,        \* which form of the component is in use
  parentCtx,   \* the context object the Ellipses inherit (useLeafletContext)
  ctxChanges,  \* how often the inherited context was replaced
  ctxHeap,     \* context objects: reference -> record
  inst,        \* L.Ellipse instances: reference -> fields
  layers,      \* container -> the layers added to it
  nextInst,    \* allocation counters
  nextCtx,
  phase,       \* per Ellipse: "absent", "rendered", "mounted", "removing", "removed"
  pending,     \* per Ellipse: the effects and cleanups React still has to run
  props,       \* per Ellipse: the props of its latest render
  rctx,        \* per Ellipse: the context read by its latest render
  renders,     \* per Ellipse: how often it was rendered
  ellipseRef,  \* per Ellipse: ellipseRef.current / elementRef.current.instance
  elemCtx,     \* per Ellipse: elementRef.current.context
  propsRef,    \* per Ellipse: propsRef.current (the props snapshot)
  pinned,      \* per Ellipse: the container the mount effect's closure holds
  mountCtx,    \* per Ellipse: the context the mount effect's closure read
  popup,       \* per Ellipse: what its Popup child is bound to
  log,         \* per Ellipse: the calls made on Leaflet objects, in order
  changes,     \* per Ellipse: how each re-evaluation changed the props
  created,     \* per Ellipse: the context createEllipse was given, as it was
  midflight,   \* per Ellipse: it was removed while an update was still pending
  failed,      \* the Ellipses whose update threw
  successor    \* per Ellipse: the element that took its place when its key changed

vars == <<impl, parentCtx, ctxChanges, ctxHeap, inst, layers, nextInst, nextCtx,
          phase, pending, props, rctx, renders, ellipseRef, elemCtx, propsRef,
          pinned, mountCtx, popup, log, changes, created, midflight, failed,
          successor>>

heapVars == <<ctxHeap, inst, layers, nextInst, nextCtx>>

\* ------------------------------------------------------------ the heap
World == [inst |-> inst, ctx |-> ctxHeap, layers |-> layers,
          nextInst |-> nextInst, nextCtx |-> nextCtx]

SetWorld(W) ==
  /\ inst' = W.inst
  /\ ctxHeap' = W.ctx
  /\ layers' = W.layers
  /\ nextInst' = W.nextInst
  /\ nextCtx' = W.nextCtx

NoInstance == [latlng |-> Undefined, radii |-> Undefined, tilt |-> Undefined,
               style |-> Undefined]
NoContext == [map |-> NoObj, layerContainer |-> NoObj, overlayContainer |-> NoObj,
              pane |-> NoObj]

\* new L.Ellipse(center, radii, tilt, options)
NewEllipse(p) == [latlng |-> ValOf(p.center), radii |-> ValOf(p.radii),
                  tilt |-> p.tilt, style |-> ValOf(p.options)]

addLayer(W, container, layer) ==
  [W EXCEPT !.layers[container] = @ \cup {layer}]

removeLayer(W, container, layer) ==
  [W EXCEPT !.layers[container] = @ \ {layer}]

Entry(op, layer, on, r) == [op |-> op, inst |-> layer, on |-> on, r |-> r]

\* createEllipse as the element-hook form of the README has it (229-239):
\* the context is returned as received, without the overlayContainer.
createEllipseSameContext(p, cref, W) ==
  LET instance == InstNames[W.nextInst]
  IN [instance |-> instance,
      context |-> cref,
      world |-> [W EXCEPT !.inst[instance] = NewEllipse(p), !.nextInst = @ + 1]]

\* createEllipse writing the overlayContainer into the context it received.
createEllipseMutating(p, cref, W) ==
  LET instance == InstNames[W.nextInst]
  IN [instance |-> instance,
      context |-> cref,
      world |-> [W EXCEPT !.inst[instance] = NewEllipse(p),
                          !.ctx[cref].overlayContainer = instance,
                          !.nextInst = @ + 1]]

\* createEllipse without the spread: context: { overlayContainer: instance }
createEllipseNoSpread(p, cref, W) ==
  LET instance == InstNames[W.nextInst]
      copy == CtxNames[W.nextCtx]
  IN [instance |-> instance,
      context |-> copy,
      world |-> [W EXCEPT !.inst[instance] = NewEllipse(p),
                          !.ctx[copy] = [NoContext EXCEPT !.overlayContainer = instance],
                          !.nextInst = @ + 1,
                          !.nextCtx = @ + 1]]

\* createEllipse that also adds the new instance to the inherited container.
createEllipseAttaching(p, cref, W) ==
  LET instance == InstNames[W.nextInst]
      copy == CtxNames[W.nextCtx]
      container == IF W.ctx[cref].layerContainer # NoObj
                   THEN W.ctx[cref].layerContainer ELSE W.ctx[cref].map
  IN [instance |-> instance,
      context |-> copy,
      world |-> [W EXCEPT !.inst[instance] = NewEllipse(p),
                          !.ctx[copy] = [W.ctx[cref] EXCEPT !.overlayContainer = instance],
                          !.layers[container] = @ \cup {instance},
                          !.nextInst = @ + 1,
                          !.nextCtx = @ + 1]]

\* ------------------------------------------- Ellipse.jsx (final form)
\* function createEllipse(props, context): one new instance, and a copy of
\* the context with the instance as overlayContainer.
createEllipse(p, cref, W) ==
  LET instance == InstNames[W.nextInst]
      copy == CtxNames[W.nextCtx]
  IN [instance |-> instance,
      context |-> copy,
      world |-> [W EXCEPT !.inst[instance] = NewEllipse(p),
                          !.ctx[copy] = [W.ctx[cref] EXCEPT !.overlayContainer = instance],
                          !.nextInst = @ + 1,
                          !.nextCtx = @ + 1]]

\* The four mutators of an L.Ellipse instance.
setLatLng(W, instance, center) == [W EXCEPT !.inst[instance].latlng = ValOf(center)]
setRadius(W, instance, radii) == [W EXCEPT !.inst[instance].radii = ValOf(radii)]
setTilt(W, instance, tilt) == [W EXCEPT !.inst[instance].tilt = tilt]
setStyle(W, instance, options) == [W EXCEPT !.inst[instance].style = ValOf(options)]

AllMutators == <<"setLatLng", "setRadius", "setTilt", "setStyle">>

\* Whether the instance rejects the value a mutator is given.
Rejects(op, p) ==
  CASE op = "setLatLng" -> ValOf(p.center) = Invalid
    [] op = "setRadius" -> ValOf(p.radii) = Invalid
    [] op = "setTilt" -> p.tilt = Invalid
    [] OTHER -> ValOf(p.options) = Invalid

\* The first of the four calls that throws, 0 when none does.
FirstThrow(p) ==
  IF \E k \in 1..Len(AllMutators) : Rejects(AllMutators[k], p)
  THEN CHOOSE k \in 1..Len(AllMutators) :
         /\ Rejects(AllMutators[k], p)
         /\ \A m \in 1..(k - 1) : ~Rejects(AllMutators[m], p)
  ELSE 0

\* The four calls made all or none: values checked before the first call.
MutatorSequenceAtomic(W, instance, p) ==
  LET k == FirstThrow(p)
  IN [world |-> IF k # 0 THEN W
                ELSE setStyle(setTilt(setRadius(setLatLng(W, instance, p.center),
                                                instance, p.radii),
                                      instance, p.tilt),
                              instance, p.options),
      calls |-> IF k = 0 THEN AllMutators ELSE SubSeq(AllMutators, 1, k),
      rejected |-> k # 0,
      thrown |-> k # 0]

\* instance.setLatLng(props.center); instance.setRadius(props.radii);
\* instance.setTilt(props.tilt); instance.setStyle(props.options): the four
\* statements in order; a call that throws ends the sequence, what the
\* earlier calls did stays done.
MutatorSequence(W, instance, p) ==
  LET k == FirstThrow(p)
      W1 == IF k = 1 THEN W ELSE setLatLng(W, instance, p.center)
      W2 == IF k \in {1, 2} THEN W1 ELSE setRadius(W1, instance, p.radii)
      W3 == IF k \in {1, 2, 3} THEN W2 ELSE setTilt(W2, instance, p.tilt)
      W4 == IF k \in {1, 2, 3, 4} THEN W3 ELSE setStyle(W3, instance, p.options)
  IN [world |-> W4,
      calls |-> IF k = 0 THEN AllMutators ELSE SubSeq(AllMutators, 1, k),
      rejected |-> k # 0,
      thrown |-> k # 0]

\* updateEllipse comparing center, radii and options by content.
updateEllipseByValue(instance, p, prev, W) ==
  IF \/ ValOf(p.center) # ValOf(prev.center)
     \/ ValOf(p.radii) # ValOf(prev.radii)
     \/ p.tilt # prev.tilt
     \/ ValOf(p.options) # ValOf(prev.options)
  THEN MutatorSequence(W, instance, p)
  ELSE [world |-> W, calls |-> <<>>, rejected |-> FALSE, thrown |-> FALSE]

\* updateEllipse without its comparison: the mutators run on every call.
updateEllipseAlways(instance, p, prev, W) == MutatorSequence(W, instance, p)

\* updateEllipse with the mutators inside try { ... } catch { }: a rejection
\* ends the sequence and is swallowed.
updateEllipseCatching(instance, p, prev, W) ==
  IF \/ p.center # prev.center
     \/ p.radii # prev.radii
     \/ p.tilt # prev.tilt
     \/ p.options # prev.options
  THEN [MutatorSequence(W, instance, p) EXCEPT !.thrown = FALSE]
  ELSE [world |-> W, calls |-> <<>>, rejected |-> FALSE, thrown |-> FALSE]

\* function updateEllipse(instance, props, prevProps): one combined
\* comparison by reference, then all four mutators in order; nothing catches
\* what a mutator throws.
updateEllipse(instance, p, prev, W) ==
  IF \/ p.center # prev.center
     \/ p.radii # prev.radii
     \/ p.tilt # prev.tilt
     \/ p.options # prev.options
  THEN MutatorSequence(W, instance, p)
  ELSE [world |-> W, calls |-> <<>>, rejected |-> FALSE, thrown |-> FALSE]

\* createElementHook(createEllipse, updateEllipse): the first acquisition
\* creates the element and keeps it, every later one keeps the element.
useEllipseElement(first, curInst, curCtx, p, cref, W) ==
  IF first
  THEN createEllipse(p, cref, W)
  ELSE [instance |-> curInst, context |-> curCtx, world |-> W]

\* The hook's update step: update(instance, props, lastProps), then props
\* become the snapshot; when update throws, the snapshot stays.
ElementUpdate(instance, p, lastProps, W) ==
  LET u == updateEllipse(instance, p, lastProps, W)
  IN [world |-> u.world, calls |-> u.calls, rejected |-> u.rejected,
      thrown |-> u.thrown, snapshot |-> IF u.thrown THEN lastProps ELSE p]

\* The container resolved from the overlayContainer instead.
ResolveOverlayContainer(ctx) ==
  IF ctx.overlayContainer # NoObj THEN ctx.overlayContainer ELSE ctx.map

\* const container = context.layerContainer || context.map
ResolveContainer(ctx) ==
  IF ctx.layerContainer # NoObj THEN ctx.layerContainer ELSE ctx.map

\* The add/remove effect of the element-hook form (useLayerLifecycle in the
\* final form): attach the element's instance to the inherited container.
LayerEffect(instance, ctx, W) ==
  LET container == ResolveContainer(ctx)
  IN [instance |-> instance, container |-> container,
      world |-> addLayer(W, container, instance), created |-> FALSE]

\* The attach effect's cleanup left out: nothing is removed.
LayerCleanupNone(container, instance, W) == W

LayerCleanup(container, instance, W) == removeLayer(W, container, instance)

\* }, [])
LayerDeps(cref) == <<>>

\* The effects of the first commit, in the order React runs them: a child's
\* effects before its parent's, so the Popup's attach, then the Ellipse's.
CreatePathEffects == <<"popup", "mount">>

\* The Popup child attaches to the overlay container of the context it is
\* rendered in (the one the Ellipse element exposes), else opens on the map.
PopupTarget(ctx) ==
  IF ctx.overlayContainer # NoObj THEN ctx.overlayContainer ELSE ctx.map

\* --------------------------------------------- README: simple form
SimpleEffect(p, ctx, W) ==
  LET ellipse == InstNames[W.nextInst]
      W1 == [W EXCEPT !.inst[ellipse] = NewEllipse(p), !.nextInst = @ + 1]
      container == ResolveContainer(ctx)
  IN [instance |-> ellipse, container |-> container,
      world |-> addLayer(W1, container, ellipse), created |-> TRUE]

\* The effect without its cleanup: nothing is removed.
SimpleCleanupNone(container, ellipse, W) == W

SimpleCleanup(container, ellipse, W) == removeLayer(W, container, ellipse)

SimpleEffects == <<"mount">>

\* --------------------------------------------- README: useRef form
\* The mount effect: ellipseRef.current = new L.Ellipse(...), addLayer.
MountEffect(p, ctx, W) ==
  LET ellipse == InstNames[W.nextInst]
      W1 == [W EXCEPT !.inst[ellipse] = NewEllipse(p), !.nextInst = @ + 1]
      container == ResolveContainer(ctx)
  IN [instance |-> ellipse, container |-> container,
      world |-> addLayer(W1, container, ellipse), created |-> TRUE]

\* The mount effect's cleanup left out: nothing is removed.
MountCleanupNone(container, current, W) == W

MountCleanup(container, current, W) == removeLayer(W, container, current)

\* The mount effect with the context as its dependency: }, [context])
MountDepsOnContext(cref) == <<cref>>

\* }, [])
MountDeps(cref) == <<>>

\* A property of the ref object itself: only `current` exists on it.
RefProp(refCurrent, key) ==
  IF key = "current" THEN refCurrent ELSE Undefined

\* The update effect: the comparison reads propsRef.center, propsRef.radii,
\* propsRef.tilt and propsRef.options (not propsRef.current.*).
UpdateEffect(current, refCurrent, p, W) ==
  IF \/ p.center # RefProp(refCurrent, "center")
     \/ p.radii # RefProp(refCurrent, "radii")
     \/ p.tilt # RefProp(refCurrent, "tilt")
     \/ p.options # RefProp(refCurrent, "options")
  THEN IF current = NoObj
       THEN [world |-> W, calls |-> <<"TypeError">>, rejected |-> TRUE,
             thrown |-> TRUE, snapshot |-> refCurrent]
       ELSE LET u == MutatorSequence(W, current, p)
            IN [world |-> u.world, calls |-> u.calls, rejected |-> u.rejected,
                thrown |-> u.thrown,
                snapshot |-> IF u.thrown THEN refCurrent ELSE p]
  ELSE [world |-> W, calls |-> <<>>, rejected |-> FALSE, thrown |-> FALSE,
        snapshot |-> p]

\* }, [center, radii, tilt, options])
UpdateDeps(p) == <<p.center, p.radii, p.tilt, p.options>>

\* The two effects declared in the other order.
UseRefEffectsSwapped == <<"update", "mount">>

UseRefEffects == <<"mount", "update">>

\* The forms whose attach effect has an empty dependency list; they have an
\* update step.
MountOnly == impl \in {"useRef", "createPath"}

\* ------------------------------------------------- React's scheduling
FirstEffects(v) ==
  CASE v = "simple" -> SimpleEffects
    [] v = "useRef" -> UseRefEffects
    [] OTHER -> CreatePathEffects

\* The simple form's effect given an empty dependency list: }, [])
RerunsMountEmptyDeps(v, oldCtx, newCtx) ==
  CASE v = "simple" -> FALSE
    [] v = "useRef" -> MountDeps(newCtx) # MountDeps(oldCtx)
    [] OTHER -> LayerDeps(newCtx) # LayerDeps(oldCtx)

\* Whether a re-render runs the attach effect again (after its cleanup): an
\* effect without a dependency list always, one with a list when it changed.
RerunsMount(v, oldCtx, newCtx) ==
  CASE v = "simple" -> TRUE
    [] v = "useRef" -> MountDeps(newCtx) # MountDeps(oldCtx)
    [] OTHER -> LayerDeps(newCtx) # LayerDeps(oldCtx)

\* Whether a re-render runs the update step.
RerunsUpdate(v, oldProps, newProps) ==
  CASE v = "simple" -> FALSE
    [] v = "useRef" -> UpdateDeps(newProps) # UpdateDeps(oldProps)
    [] OTHER -> TRUE

\* The effects a re-render can run again, in the order the component
\* declares them (the element hook's update comes before the attach effect).
DeclaredEffects(v) ==
  CASE v = "simple" -> SimpleEffects
    [] v = "useRef" -> UseRefEffects
    [] OTHER -> <<"update", "mount">>

\* All cleanups of a commit run before its effects; the effects run in the
\* order the component declares them.
RerenderEffects(v, oldCtx, newCtx, oldProps, newProps) ==
  LET rerun == RerunsMount(v, oldCtx, newCtx)
      update == RerunsUpdate(v, oldProps, newProps)
  IN (IF rerun THEN <<"cleanup">> ELSE <<>>)
     \o SelectSeq(DeclaredEffects(v),
                  LAMBDA e : (e = "mount" /\ rerun) \/ (e = "update" /\ update))

\* The cleanups of a removed Ellipse, in the order React runs them in a
\* deleted subtree: the parent's first, so the Ellipse's detach, then its
\* Popup child's.
RemoveEffects(v, bound) ==
  IF v = "createPath" /\ bound # NoObj THEN <<"cleanup", "popupCleanup">>
  ELSE <<"cleanup">>

\* The effects of a removal: what is still pending of the previous commit
\* runs first.
RemovalEffects(pend, v, bound) == pend \o RemoveEffects(v, bound)

Append1(i, e) == log' = [log EXCEPT ![i] = Append(@, e)]

\* The calls of one update, the last of them marked when it was rejected.
AppendAll(i, ops, layer, r, rejected) ==
  log' = [log EXCEPT ![i] =
            @ \o [k \in 1..Len(ops) |->
                   Entry(ops[k], layer,
                         IF rejected /\ k = Len(ops) THEN "Error" ELSE NoObj, r)]]

\* --------------------------------------------------------------- Init
Init ==
  /\ impl \in Impls
  /\ parentCtx = CtxNames[1]
  /\ ctxChanges = 0
  /\ \E lc \in {"lg1", NoObj} :
       ctxHeap = [c \in CtxSet |->
                    IF c = CtxNames[1]
                    THEN [map |-> TheMap, layerContainer |-> lc,
                          overlayContainer |-> NoObj, pane |-> "overlayPane"]
                    ELSE NoContext]
  /\ inst = [e \in InstSet |-> NoInstance]
  /\ layers = [c \in Containers |-> {}]
  /\ nextInst = 1
  /\ nextCtx = 2
  /\ phase = [i \in Ellipses |-> "absent"]
  /\ pending = [i \in Ellipses |-> <<>>]
  /\ props = [i \in Ellipses |-> InitialProps]
  /\ rctx = [i \in Ellipses |-> NoObj]
  /\ renders = [i \in Ellipses |-> 0]
  /\ ellipseRef = [i \in Ellipses |-> NoObj]
  /\ elemCtx = [i \in Ellipses |-> NoObj]
  /\ propsRef = [i \in Ellipses |-> InitialProps]
  /\ pinned = [i \in Ellipses |-> NoObj]
  /\ mountCtx = [i \in Ellipses |-> NoObj]
  /\ popup = [i \in Ellipses |-> NoObj]
  /\ log = [i \in Ellipses |-> <<>>]
  /\ changes = [i \in Ellipses |-> <<>>]
  /\ created = [i \in Ellipses |-> [from |-> NoObj, snap |-> NoContext]]
  /\ midflight = [i \in Ellipses |-> FALSE]
  /\ failed = {}
  /\ successor = [i \in Ellipses |-> 0]

\* ------------------------------------------------------------ actions
OtherContainer(lc) == IF lc = "lg2" THEN NoObj ELSE "lg2"

\* React runs every effect of a commit before it renders again.
Flushed == \A j \in Ellipses : pending[j] = <<>>

\* The re-evaluations made so far, over all Ellipses, those that changed a
\* key included.
Rerenders ==
  LET Sum[S \in SUBSET Ellipses] ==
        IF S = {} THEN 0
        ELSE LET i == CHOOSE j \in S : TRUE
             IN (IF renders[i] > 0 THEN renders[i] - 1 ELSE 0) + Sum[S \ {i}]
  IN Sum[Ellipses] + Cardinality({i \in Ellipses : successor[i] \notin {0, i}})

\* The cleanups of a commit run before its effects: the element that took
\* the place of a removed one runs its effects after that one's cleanups.
CleanupsDone(i) == \A k \in Ellipses : successor[k] = i => pending[k] = <<>>

\* The key taken from the city's latitude instead: key={city.lat}
KeyOfLat(p) == ValOf(p.center)

\* key={city.tilt}
KeyOf(p) == p.tilt

\* The first render of Ellipse i: its hooks' cells are initialised (useRef(),
\* useRef(props), and in the final form the element is acquired), and the
\* effects of the first commit are scheduled.
FirstRender(i) ==
  /\ phase[i] = "absent"
  /\ failed = {}
  /\ LET el == IF impl = "createPath"
               THEN useEllipseElement(TRUE, NoObj, NoObj, props[i], parentCtx, World)
               ELSE [instance |-> NoObj, context |-> NoObj, world |-> World]
     IN /\ SetWorld(el.world)
        /\ ellipseRef' = [ellipseRef EXCEPT ![i] = el.instance]
        /\ elemCtx' = [elemCtx EXCEPT ![i] = el.context]
        /\ IF impl = "createPath"
           THEN /\ Append1(i, Entry("new", el.instance, NoObj, 1))
                /\ created' = [created EXCEPT ![i] =
                                 [from |-> parentCtx, snap |-> ctxHeap[parentCtx]]]
           ELSE UNCHANGED <<log, created>>
  /\ phase' = [phase EXCEPT ![i] = "rendered"]
  /\ rctx' = [rctx EXCEPT ![i] = parentCtx]
  /\ renders' = [renders EXCEPT ![i] = 1]
  /\ propsRef' = [propsRef EXCEPT ![i] = props[i]]
  /\ pending' = [pending EXCEPT ![i] = FirstEffects(impl)]
  /\ UNCHANGED <<midflight, failed, successor>>
  /\ UNCHANGED <<impl, parentCtx, ctxChanges, props, pinned, mountCtx, popup,
                 changes>>

\* A re-evaluation of a mounted Ellipse i, its identity unchanged, with props
\* changed by ch; React has run every effect of the previous commit before it
\* renders again.
Rerender(i, ch) ==
  /\ phase[i] = "mounted"
  /\ Flushed
  /\ failed = {}
  /\ ch \in BadChanges => MountOnly
  /\ Rerenders + ctxChanges < MaxRerenders
  /\ LET n == renders[i] + 1
         p == ApplyChange(props[i], ch, Rerenders + 1)
         el == IF impl = "createPath"
               THEN useEllipseElement(FALSE, ellipseRef[i], elemCtx[i], p, parentCtx, World)
               ELSE [instance |-> ellipseRef[i], context |-> elemCtx[i], world |-> World]
     IN /\ SetWorld(el.world)
        /\ ellipseRef' = [ellipseRef EXCEPT ![i] = el.instance]
        /\ elemCtx' = [elemCtx EXCEPT ![i] = el.context]
        /\ props' = [props EXCEPT ![i] = p]
        /\ renders' = [renders EXCEPT ![i] = n]
        /\ pending' = [pending EXCEPT ![i] =
                         RerenderEffects(impl, rctx[i], parentCtx, props[i], p)]
  /\ rctx' = [rctx EXCEPT ![i] = parentCtx]
  /\ changes' = [changes EXCEPT ![i] = Append(@, ch)]
  /\ UNCHANGED <<midflight, failed, successor>>
  /\ UNCHANGED <<impl, parentCtx, ctxChanges, phase, propsRef, pinned, mountCtx,
                 popup, log, created>>

\* The attach effect of Ellipse i, with the props and the context of the
\* render that scheduled it.
RunMount(i) ==
  /\ pending[i] # <<>>
  /\ Head(pending[i]) = "mount"
  /\ CleanupsDone(i)
  /\ LET ctx == ctxHeap[rctx[i]]
         eff == CASE impl = "simple" -> SimpleEffect(props[i], ctx, World)
                  [] impl = "useRef" -> MountEffect(props[i], ctx, World)
                  [] OTHER -> LayerEffect(ellipseRef[i], ctx, World)
     IN /\ SetWorld(eff.world)
        /\ ellipseRef' = [ellipseRef EXCEPT ![i] = eff.instance]
        /\ pinned' = [pinned EXCEPT ![i] = eff.container]
        /\ log' = [log EXCEPT ![i] =
                     @ \o (IF eff.created
                           THEN <<Entry("new", eff.instance, NoObj, renders[i])>>
                           ELSE <<>>)
                       \o <<Entry("addLayer", eff.instance, eff.container, renders[i])>>]
  /\ mountCtx' = [mountCtx EXCEPT ![i] = rctx[i]]
  /\ pending' = [pending EXCEPT ![i] = Tail(@)]
  /\ phase' = [phase EXCEPT ![i] = "mounted"]
  /\ UNCHANGED <<midflight, failed, successor>>
  /\ UNCHANGED <<impl, parentCtx, ctxChanges, props, rctx, renders, elemCtx,
                 propsRef, popup, changes, created>>

\* The cleanup of the attach effect: before the effect runs again (the
\* Ellipse is then detached until the effect has run), and when the Ellipse is
\* removed.
RunCleanup(i) ==
  /\ pending[i] # <<>>
  /\ Head(pending[i]) = "cleanup"
  /\ LET W == CASE impl = "simple" -> SimpleCleanup(pinned[i], ellipseRef[i], World)
                [] impl = "useRef" -> MountCleanup(pinned[i], ellipseRef[i], World)
                [] OTHER -> LayerCleanup(pinned[i], ellipseRef[i], World)
     IN SetWorld(W)
  /\ Append1(i, Entry("removeLayer", ellipseRef[i], pinned[i], renders[i]))
  /\ pending' = [pending EXCEPT ![i] = Tail(@)]
  /\ phase' = [phase EXCEPT ![i] = IF @ = "removing" THEN "removed" ELSE "rendered"]
  /\ UNCHANGED <<midflight, failed, successor>>
  /\ UNCHANGED <<impl, parentCtx, ctxChanges, props, rctx, renders, ellipseRef,
                 elemCtx, propsRef, pinned, mountCtx, popup, changes, created>>

\* The update step: the update effect of the useRef form, the element
\* hook's update in the final form.
RunUpdate(i) ==
  /\ pending[i] # <<>>
  /\ Head(pending[i]) = "update"
  /\ CleanupsDone(i)
  /\ LET u == IF impl = "useRef"
              THEN UpdateEffect(ellipseRef[i], propsRef[i], props[i], World)
              ELSE ElementUpdate(ellipseRef[i], props[i], propsRef[i], World)
     IN /\ SetWorld(u.world)
        /\ AppendAll(i, u.calls, ellipseRef[i], renders[i], u.rejected)
        /\ propsRef' = [propsRef EXCEPT ![i] = u.snapshot]
        /\ failed' = IF u.thrown THEN failed \cup {i} ELSE failed
  /\ pending' = [pending EXCEPT ![i] = Tail(@)]
  /\ UNCHANGED <<midflight, successor>>
  /\ UNCHANGED <<impl, parentCtx, ctxChanges, phase, props, rctx, renders,
                 ellipseRef, elemCtx, pinned, mountCtx, popup, changes, created>>

\* The Popup declared inside Ellipse i attaches, in the context the Ellipse
\* element exposes.
RunPopup(i) ==
  /\ pending[i] # <<>>
  /\ Head(pending[i]) = "popup"
  /\ CleanupsDone(i)
  /\ LET target == PopupTarget(ctxHeap[elemCtx[i]])
     IN /\ popup' = [popup EXCEPT ![i] = target]
        /\ Append1(i, Entry("bindPopup", ellipseRef[i], target, renders[i]))
  /\ pending' = [pending EXCEPT ![i] = Tail(@)]
  /\ UNCHANGED <<midflight, failed, successor>>
  /\ UNCHANGED <<impl, parentCtx, ctxChanges, heapVars, phase, props, rctx,
                 renders, ellipseRef, elemCtx, propsRef, pinned, mountCtx,
                 changes, created>>

RunPopupCleanup(i) ==
  /\ pending[i] # <<>>
  /\ Head(pending[i]) = "popupCleanup"
  /\ Append1(i, Entry("unbindPopup", ellipseRef[i], popup[i], renders[i]))
  /\ popup' = [popup EXCEPT ![i] = NoObj]
  /\ pending' = [pending EXCEPT ![i] = Tail(@)]
  /\ UNCHANGED <<midflight, failed, successor>>
  /\ UNCHANGED <<impl, parentCtx, ctxChanges, heapVars, phase, props, rctx,
                 renders, ellipseRef, elemCtx, propsRef, pinned, mountCtx,
                 changes, created>>

\* Ellipse i leaves the tree, possibly while the update of its latest render
\* is still pending: React runs the pending effect before it commits the
\* removal, whose cleanups follow.
Remove(i) ==
  /\ phase[i] = "mounted"
  /\ failed = {}
  /\ \A j \in Ellipses \ {i} : pending[j] = <<>>
  /\ pending[i] \in {<<>>, <<"update">>}
  /\ phase' = [phase EXCEPT ![i] = "removing"]
  /\ pending' = [pending EXCEPT ![i] = RemovalEffects(@, impl, popup[i])]
  /\ midflight' = [midflight EXCEPT ![i] = pending[i] # <<>>]
  /\ UNCHANGED <<failed, successor>>
  /\ UNCHANGED <<impl, parentCtx, ctxChanges, heapVars, props, rctx, renders,
                 ellipseRef, elemCtx, propsRef, pinned, mountCtx, popup, log,
                 changes, created>>

\* An ancestor provides a new context object whose layerContainer differs.
ContextChange(lc) ==
  /\ Rerenders + ctxChanges < MaxRerenders
  /\ failed = {}
  /\ Flushed
  /\ lc = OtherContainer(ctxHeap[parentCtx].layerContainer)
  /\ ctxHeap' = [ctxHeap EXCEPT ![CtxNames[nextCtx]] =
                   [ctxHeap[parentCtx] EXCEPT !.layerContainer = lc]]
  /\ parentCtx' = CtxNames[nextCtx]
  /\ nextCtx' = nextCtx + 1
  /\ ctxChanges' = ctxChanges + 1
  /\ UNCHANGED <<midflight, failed, successor>>
  /\ UNCHANGED <<impl, inst, layers, nextInst, phase, pending, props, rctx,
                 renders, ellipseRef, elemCtx, propsRef, pinned, mountCtx, popup,
                 log, changes, created>>

\* Map re-renders with the tilt of Ellipse i's city changed. The tilt is the
\* element's key: with a new key React removes the element of the old key
\* (its cleanups are scheduled) and renders a new element in its place (j),
\* first render and first effects; with the same key it re-renders the element
\* in place.
TiltChange(i, j) ==
  /\ phase[i] = "mounted"
  /\ phase[j] = "absent"
  /\ Flushed
  /\ failed = {}
  /\ Rerenders + ctxChanges < MaxRerenders
  /\ LET p == ApplyChange(props[i], "tilt", Rerenders + 1)
         remount == KeyOf(p) # KeyOf(props[i])
         t == IF remount THEN j ELSE i
         el == IF impl = "createPath"
               THEN useEllipseElement(remount, ellipseRef[i], elemCtx[i], p,
                                      parentCtx, World)
               ELSE [instance |-> IF remount THEN NoObj ELSE ellipseRef[i],
                     context |-> IF remount THEN NoObj ELSE elemCtx[i],
                     world |-> World]
     IN /\ SetWorld(el.world)
        /\ ellipseRef' = [ellipseRef EXCEPT ![t] = el.instance]
        /\ elemCtx' = [elemCtx EXCEPT ![t] = el.context]
        /\ props' = [props EXCEPT ![t] = p]
        /\ rctx' = [rctx EXCEPT ![t] = parentCtx]
        /\ successor' = [successor EXCEPT ![i] = t]
        /\ IF remount
           THEN /\ phase' = [phase EXCEPT ![i] = "removing", ![j] = "rendered"]
                /\ pending' = [pending EXCEPT ![i] = RemoveEffects(impl, popup[i]),
                                              ![j] = FirstEffects(impl)]
                /\ renders' = [renders EXCEPT ![j] = 1]
                /\ propsRef' = [propsRef EXCEPT ![j] = p]
                /\ IF impl = "createPath"
                   THEN /\ Append1(j, Entry("new", el.instance, NoObj, 1))
                        /\ created' = [created EXCEPT ![j] =
                                         [from |-> parentCtx,
                                          snap |-> ctxHeap[parentCtx]]]
                   ELSE UNCHANGED <<log, created>>
                /\ UNCHANGED changes
           ELSE /\ pending' = [pending EXCEPT ![i] =
                                 RerenderEffects(impl, rctx[i], parentCtx, props[i], p)]
                /\ renders' = [renders EXCEPT ![i] = @ + 1]
                /\ changes' = [changes EXCEPT ![i] = Append(@, "tilt")]
                /\ UNCHANGED <<phase, propsRef, log, created>>
  /\ UNCHANGED <<midflight, failed>>
  /\ UNCHANGED <<impl, parentCtx, ctxChanges, pinned, mountCtx, popup>>

\* An error thrown by an effect is caught nowhere (Map renders no error
\* boundary): once the effects of the commit have run, React unmounts the
\* whole tree, every mounted Ellipse included.
Teardown ==
  /\ failed # {}
  /\ Flushed
  /\ \E i \in Ellipses : phase[i] = "mounted"
  /\ phase' = [i \in Ellipses |->
                 IF phase[i] = "mounted" THEN "removing" ELSE phase[i]]
  /\ pending' = [i \in Ellipses |->
                   IF phase[i] = "mounted" THEN RemoveEffects(impl, popup[i])
                   ELSE pending[i]]
  /\ UNCHANGED <<midflight, failed, successor>>
  /\ UNCHANGED <<impl, parentCtx, ctxChanges, heapVars, props, rctx, renders,
                 ellipseRef, elemCtx, propsRef, pinned, mountCtx, popup, log,
                 changes, created>>

Next ==
  \/ \E i \in Ellipses : FirstRender(i)
  \/ \E i \in Ellipses, ch \in Changes : Rerender(i, ch)
  \/ \E i \in Ellipses : RunMount(i)
  \/ \E i \in Ellipses : RunCleanup(i)
  \/ \E i \in Ellipses : RunUpdate(i)
  \/ \E i \in Ellipses : RunPopup(i)
  \/ \E i \in Ellipses : RunPopupCleanup(i)
  \/ \E i \in Ellipses : Remove(i)
  \/ \E lc \in LayerGroups \cup {NoObj} : ContextChange(lc)
  \/ \E i, j \in Ellipses : TiltChange(i, j)
  \/ Teardown

Spec == Init /\ [][Next]_vars

\* ============================================================= claims
Calls(i, op) == SelectSeq(log[i], LAMBDA e : e.op = op)
MutatorCalls(i) == SelectSeq(log[i], LAMBDA e : e.op \in Mutators)
Unchanged(i) == \A k \in 1..Len(changes[i]) : changes[i][k] = "none"

\* C1: with a mount-only effect (the useRef form and the element-hook form),
\* whatever re-renders, prop changes and replacements of the inherited
\* context happen between mount and unmount, addLayer is called exactly once
\* and removeLayer exactly once (none before the unmount), both on the
\* container resolved from the context read at mount and both with the one
\* instance created at mount.
C1_MountUnmountOnce ==
  MountOnly =>
    \A i \in Ellipses :
      LET adds == Calls(i, "addLayer")
          rems == Calls(i, "removeLayer")
          news == Calls(i, "new")
      IN /\ phase[i] \in {"absent", "rendered"} => adds = <<>> /\ rems = <<>>
         /\ phase[i] \in {"mounted", "removing"} => Len(adds) = 1 /\ rems = <<>>
         /\ phase[i] = "removed" =>
              /\ Len(adds) = 1
              /\ Len(rems) = 1
              /\ rems[1].on = adds[1].on
              /\ rems[1].inst = adds[1].inst
         /\ Len(adds) = 1 =>
              /\ Len(news) = 1
              /\ adds[1].inst = news[1].inst
              /\ LET c == ctxHeap[mountCtx[i]]
                 IN adds[1].on = IF c.layerContainer # NoObj THEN c.layerContainer
                                 ELSE c.map

\* C1's case: an Ellipse was unmounted after a re-render that read a replaced
\* context, whose container is not the one pinned at mount.
C1_Witness ==
  /\ MountOnly
  /\ \E i \in Ellipses :
       /\ phase[i] = "removed"
       /\ renders[i] >= 2
       /\ rctx[i] # mountCtx[i]
       /\ ctxHeap[rctx[i]].layerContainer # ctxHeap[mountCtx[i]].layerContainer
       /\ Len(Calls(i, "removeLayer")) = 1

\* C2: over N >= 1 re-evaluations of one Ellipse with unchanged props, the
\* L.Ellipse constructor is invoked exactly once, and no re-evaluation invokes
\* a mutator; updateEllipse (the final form) invokes none at all.
C2_CreateOnceNoUpdate ==
  MountOnly =>
    \A i \in Ellipses :
      (renders[i] >= 2 /\ Unchanged(i)) =>
        /\ Len(Calls(i, "new")) = 1
        /\ \A k \in 1..Len(log[i]) :
             log[i][k].op \in Mutators => (log[i][k].r = 1 /\ impl = "useRef")

\* C2's case: an Ellipse of the final form re-evaluated twice with unchanged
\* props, all effects run.
C2_Witness ==
  /\ impl = "createPath"
  /\ \E i \in Ellipses :
       /\ renders[i] >= 3
       /\ Unchanged(i)
       /\ pending[i] = <<>>
       /\ propsRef[i] = props[i]

MutatorOf(a) ==
  CASE a = "center" -> "setLatLng"
    [] a = "radii" -> "setRadius"
    [] a = "tilt" -> "setTilt"
    [] OTHER -> "setStyle"

\* The mutators invoked on behalf of Ellipse i's latest render.
LatestMutators(i) ==
  {log[i][k].op : k \in {m \in 1..Len(log[i]) :
                           log[i][m].op \in Mutators /\ log[i][m].r = renders[i]}}

\* C3 (as claimed): when exactly one tracked attribute changed between two
\* re-evaluations, updateEllipse invokes the mutator of that attribute and no
\* other mutator.
C3_OnlyChangedMutator ==
  impl = "createPath" =>
    \A i \in Ellipses :
      (/\ changes[i] # <<>>
       /\ changes[i][Len(changes[i])] \in Attrs
       /\ pending[i] = <<>>
       /\ phase[i] = "mounted") =>
        LatestMutators(i) = {MutatorOf(changes[i][Len(changes[i])])}

\* C4: the Popup declared inside an Ellipse is bound to the Ellipse's own
\* instance (the overlayContainer of the context createEllipse returned),
\* never to the container the Ellipse inherited (LayerGroup or map).
C4_PopupOnOwnInstance ==
  \A i \in Ellipses :
    popup[i] # NoObj =>
      /\ popup[i] = ellipseRef[i]
      /\ popup[i] \notin Containers
      /\ \A k \in 1..Len(log[i]) :
           log[i][k].op = "bindPopup" => log[i][k].on = Calls(i, "new")[1].inst

\* C4's case: a Popup is bound while its Ellipse sits in a LayerGroup.
C4_Witness ==
  \E i \in Ellipses :
    /\ popup[i] # NoObj
    /\ pinned[i] \in LayerGroups
    /\ ellipseRef[i] \in layers[pinned[i]]

\* C5: createEllipse leaves the context it receives as it was, and two
\* Ellipses created from the same parent context each expose their own
\* instance as overlayContainer, in a context object of their own.
C5_ContextNotMutated ==
  \A i \in Ellipses :
    created[i].from # NoObj =>
      /\ ctxHeap[created[i].from] = created[i].snap
      /\ ctxHeap[created[i].from].overlayContainer = NoObj
      /\ elemCtx[i] # created[i].from
      /\ ctxHeap[elemCtx[i]].overlayContainer = ellipseRef[i]
      /\ \A j \in Ellipses \ {i} :
           created[j].from # NoObj =>
             /\ elemCtx[j] # elemCtx[i]
             /\ ctxHeap[elemCtx[j]].overlayContainer # ellipseRef[i]

\* C5's case: two sibling Ellipses were created from the same parent context.
C5_Witness ==
  \E i, j \in Ellipses :
    /\ i # j
    /\ created[i].from # NoObj
    /\ created[i].from = created[j].from
    /\ ellipseRef[i] # ellipseRef[j]

\* C6: the context an Ellipse element exposes equals the context it
\* inherited on every key except the overlay container key, which holds the
\* element's own instance.
C6_ShallowCopy ==
  \A i \in Ellipses :
    created[i].from # NoObj =>
      /\ ctxHeap[elemCtx[i]].map = created[i].snap.map
      /\ ctxHeap[elemCtx[i]].layerContainer = created[i].snap.layerContainer
      /\ ctxHeap[elemCtx[i]].pane = created[i].snap.pane
      /\ ctxHeap[elemCtx[i]].overlayContainer = Calls(i, "new")[1].inst
      /\ DOMAIN ctxHeap[elemCtx[i]] = DOMAIN created[i].snap

\* C6's case: an element was created under a replaced context that names a
\* LayerGroup.
C6_Witness ==
  \E i \in Ellipses :
    /\ created[i].from # NoObj
    /\ created[i].from # CtxNames[1]
    /\ created[i].snap.layerContainer \in LayerGroups
    /\ created[i].snap.pane = "overlayPane"

\* C7: every form of the Ellipse attaches its instance to the container of
\* the context it inherited, the layerContainer when there is one and the map
\* otherwise, and never to what it exposes to its descendants (itself).
C7_AttachToInherited ==
  \A i \in Ellipses :
    pinned[i] # NoObj =>
      LET c == ctxHeap[mountCtx[i]]
      IN /\ c.layerContainer \in LayerGroups => pinned[i] = c.layerContainer
         /\ c.layerContainer \notin LayerGroups => pinned[i] = TheMap
         /\ pinned[i] \notin InstSet
         /\ elemCtx[i] # NoObj => pinned[i] # ctxHeap[elemCtx[i]].overlayContainer
         /\ phase[i] = "mounted" =>
              \A k \in Containers : ellipseRef[i] \in layers[k] <=> k = pinned[i]

\* C7's cases: one Ellipse attached to a LayerGroup and one to the map.
C7_Witness ==
  \E i, j \in Ellipses :
    /\ phase[i] = "mounted" /\ phase[j] = "mounted"
    /\ pinned[i] \in LayerGroups /\ ellipseRef[i] \in layers[pinned[i]]
    /\ pinned[j] = TheMap /\ ellipseRef[j] \in layers[TheMap]

\* C8: createEllipse allocates one instance and attaches nothing: between the
\* create and the mount step the instance is in no container, and the
\* instances allocated are those the Ellipses created.
C8_CreateAttachesNothing ==
  impl = "createPath" =>
    /\ \A i \in Ellipses :
         phase[i] = "rendered" =>
           /\ ellipseRef[i] \in InstSet
           /\ \A k \in Containers : ellipseRef[i] \notin layers[k]
    /\ nextInst - 1 = Cardinality({i \in Ellipses : phase[i] # "absent"})
    /\ \A k \in Containers :
         layers[k] \subseteq {ellipseRef[i] : i \in {j \in Ellipses :
                                   phase[j] \in {"mounted", "removing"}}}

\* C8's case: an element is created and not yet mounted while its sibling is
\* attached.
C8_Witness ==
  /\ impl = "createPath"
  /\ \E i, j \in Ellipses :
       /\ phase[i] = "rendered"
       /\ ellipseRef[i] \in InstSet
       /\ phase[j] = "mounted"
       /\ ellipseRef[j] \in layers[pinned[j]]

\* The instances Ellipse i created that are in some container.
AttachedOf(i) ==
  {e \in {Calls(i, "new")[k].inst : k \in 1..Len(Calls(i, "new"))} :
     \E c \in Containers : e \in layers[c]}

\* C9: in every reachable state an Ellipse that is mounted (its attach
\* effect has run, the cleanup has not) has exactly one of its L.Ellipse
\* instances attached, the one it refers to, in exactly one container; no
\* re-evaluation leaves two attached, or none, and with a mount-only effect no
\* re-evaluation constructs a second instance.
C9_OneInstancePerMounted ==
  \A i \in Ellipses :
    /\ Cardinality(AttachedOf(i)) <= 1
    /\ phase[i] = "mounted" =>
         /\ AttachedOf(i) = {ellipseRef[i]}
         /\ Cardinality({c \in Containers : ellipseRef[i] \in layers[c]}) = 1
         /\ inst[ellipseRef[i]] # NoInstance
         /\ MountOnly => Len(Calls(i, "new")) = 1

\* C9's case: a mounted Ellipse of the simple form after a re-evaluation, and
\* its sibling mounted too.
C9_Witness ==
  \E i, j \in Ellipses :
    /\ i # j
    /\ phase[i] = "mounted" /\ phase[j] = "mounted"
    /\ renders[i] >= 2
    /\ Len(Calls(i, "new")) >= 2

\* C10: for one Ellipse, the creation of the instance precedes every mutator
\* call, every mutator call precedes the removeLayer of the unmount, and the
\* update step never runs while the instance reference is unset.
C10_CreateUpdateUnmountOrder ==
  MountOnly =>
    \A i \in Ellipses :
      /\ \A k \in 1..Len(log[i]) :
           /\ log[i][k].op # "TypeError"
           /\ log[i][k].op \in Mutators =>
                /\ \E m \in 1..(k - 1) :
                     log[i][m].op = "new" /\ log[i][m].inst = log[i][k].inst
                /\ \A m \in 1..k : log[i][m].op # "removeLayer"
      /\ (pending[i] # <<>> /\ Head(pending[i]) = "update") => ellipseRef[i] # NoObj

\* C10's case: an Ellipse was created, updated after a prop change and then
\* unmounted.
C10_Witness ==
  /\ MountOnly
  /\ \E i \in Ellipses :
       /\ phase[i] = "removed"
       /\ \E k \in 1..Len(log[i]) : log[i][k].op \in Mutators /\ log[i][k].r >= 2
       /\ log[i][Len(log[i])].op = "removeLayer"

\* The position of the first call op in Ellipse i's log, 0 when there is none.
FirstCall(i, op) ==
  IF \E k \in 1..Len(log[i]) : log[i][k].op = op
  THEN CHOOSE k \in 1..Len(log[i]) :
         /\ log[i][k].op = op
         /\ \A m \in 1..(k - 1) : log[i][m].op # op
  ELSE 0

C13_RemovedMidFlight ==
  MountOnly =>
    \A i \in Ellipses :
      midflight[i] =>
        LET adds == Calls(i, "addLayer")
            rems == Calls(i, "removeLayer")
        IN /\ phase[i] \in {"removing", "removed"}
           /\ Len(adds) = 1
           /\ Len(rems) <= 1
           /\ phase[i] = "removed" =>
                /\ Len(rems) = 1
                /\ rems[1].inst = adds[1].inst
                /\ rems[1].on = adds[1].on
                /\ \A c \in Containers : adds[1].inst \notin layers[c]
                /\ \A k \in 1..Len(pending[i]) : pending[i][k] # "update"
           /\ \A k, m \in 1..Len(log[i]) :
                (log[i][k].op = "removeLayer" /\ log[i][m].op \in Mutators) => m < k

\* C13's case: an Ellipse was removed while the update of a re-render with
\* changed props was pending; the update ran, then the removeLayer.
C13_Witness ==
  /\ MountOnly
  /\ \E i \in Ellipses :
       /\ midflight[i]
       /\ phase[i] = "removed"
       /\ pending[i] = <<>>
       /\ renders[i] >= 2
       /\ \E k \in 1..Len(log[i]) :
            log[i][k].op \in Mutators /\ log[i][k].r = renders[i]

\* The positions in Ellipse i's log of the mutator calls that were rejected.
RejectedCalls(i) ==
  {k \in 1..Len(log[i]) : log[i][k].op \in Mutators /\ log[i][k].on = "Error"}

\* C14: when a mutator rejects a value during updateEllipse, the error leaves
\* updateEllipse and reaches its caller (the Ellipse's update has failed);
\* the rejected mutator was called once in that update, not again, and no
\* other mutator is called after it.
C14_ErrorPropagates ==
  impl = "createPath" =>
    \A i \in Ellipses :
      \A k \in RejectedCalls(i) :
        /\ i \in failed
        /\ propsRef[i] # props[i]
        /\ \A m \in 1..Len(log[i]) :
             (m # k /\ log[i][m].r = log[i][k].r) => log[i][m].op # log[i][k].op
        /\ \A m \in (k + 1)..Len(log[i]) : log[i][m].op \notin Mutators

\* C14's case: setTilt rejected the tilt of a re-render, after setLatLng and
\* setRadius had been called.
C14_Witness ==
  /\ impl = "createPath"
  /\ \E i \in Ellipses :
       /\ i \in failed
       /\ \E k \in RejectedCalls(i) :
            /\ log[i][k].op = "setTilt"
            /\ k > 2
            /\ log[i][k - 1].op = "setRadius"

\* C15 (as claimed): when the update of one Ellipse has failed, every sibling
\* Ellipse that is mounted stays mounted, its instance attached.
C15_SiblingsUnaffected ==
  [][\A j \in Ellipses :
       (failed # {} /\ j \notin failed /\ phase[j] = "mounted") =>
         /\ phase'[j] = "mounted"
         /\ ellipseRef'[j] \in layers'[pinned'[j]]]_vars

\* C16: updateEllipse compares by reference, so a re-render that passes
\* center and radii arrays newly built with the same content (as every
\* re-render of Map does, the one after setMap included) runs all four
\* mutators on the Ellipse, although no value of the instance changes.
C16_SpuriousUpdate ==
  impl = "createPath" =>
    \A i \in Ellipses :
      (/\ changes[i] # <<>>
       /\ changes[i][Len(changes[i])] = "realloc"
       /\ phase[i] = "mounted"
       /\ pending[i] = <<>>) =>
        /\ LatestMutators(i) = Mutators
        /\ Cardinality({k \in 1..Len(log[i]) :
                          log[i][k].op \in Mutators /\ log[i][k].r = renders[i]}) = 4
        /\ inst[ellipseRef[i]] = NewEllipse(props[i])
        /\ propsRef[i] = props[i]

\* C16's case: Map re-rendered both Ellipses with rebuilt arrays and no
\* datum changed; the updates have run.
C16_Witness ==
  /\ impl = "createPath"
  /\ \A i \in Ellipses :
       /\ renders[i] = 2
       /\ changes[i] = <<"realloc">>
       /\ phase[i] = "mounted"
       /\ pending[i] = <<>>
       /\ ValOf(props[i].center) = ValOf(InitialProps.center)
       /\ props[i].center # InitialProps.center

\* C17 (as claimed): in the form with separate mount and update effects the
\* update effect invokes mutators only for a render whose props differ from
\* the stored snapshot; on the initial mount, where the snapshot is the props
\* the instance was created from, it invokes none.
C17_NoMutatorOnMount ==
  impl = "useRef" =>
    \A i \in Ellipses :
      \A k \in 1..Len(log[i]) :
        log[i][k].op \in Mutators =>
          /\ log[i][k].r >= 2
          /\ changes[i][log[i][k].r - 1] # "none"

\* C18: in the simple form every render, also one with unchanged props,
\* removes the ellipse added by the previous render from the container it was
\* added to and then creates and adds a new one: after k renders (effects
\* run) there were k creations, k addLayer calls and k-1 removeLayer calls.
C18_RecreatedEveryRender ==
  impl = "simple" =>
    \A i \in Ellipses :
      (phase[i] = "mounted" /\ pending[i] = <<>>) =>
        LET k == renders[i]
        IN /\ Len(Calls(i, "new")) = k
           /\ Len(Calls(i, "addLayer")) = k
           /\ Len(Calls(i, "removeLayer")) = k - 1
           /\ Len(log[i]) = 3 * k - 1
           /\ \A r \in 1..k :
                /\ log[i][3 * r - 2].op = "new"
                /\ log[i][3 * r - 1].op = "addLayer"
                /\ log[i][3 * r - 1].inst = log[i][3 * r - 2].inst
                /\ r >= 2 =>
                     /\ log[i][3 * r - 3].op = "removeLayer"
                     /\ log[i][3 * r - 3].inst = log[i][3 * r - 4].inst
                     /\ log[i][3 * r - 3].on = log[i][3 * r - 4].on
                     /\ log[i][3 * r - 2].inst # log[i][3 * r - 4].inst
           /\ AttachedOf(i) = {log[i][3 * k - 2].inst}

\* C18's case: an Ellipse of the simple form rendered three times with
\* unchanged props.
C18_Witness ==
  /\ impl = "simple"
  /\ \E i \in Ellipses :
       /\ renders[i] = 3
       /\ Unchanged(i)
       /\ phase[i] = "mounted"
       /\ pending[i] = <<>>
       /\ Len(Calls(i, "removeLayer")) = 2

\* The fields of an instance in the order of their mutators.
FieldsOf(e) == <<e.latlng, e.radii, e.tilt, e.style>>

C20_TiltChangeRemounts ==
  \A i \in Ellipses :
    successor[i] # 0 =>
      LET j == successor[i]
      IN /\ phase[i] \in {"removing", "removed"}
         /\ \A k \in 1..Len(pending[i]) : pending[i][k] # "update"
         /\ inst[ellipseRef[i]].tilt = props[i].tilt
         /\ renders[j] = 1 => props[j].tilt = OtherTilt(props[i].tilt)
         /\ (pending[i] = <<>> /\ pending[j] = <<>> /\ failed = {}
             /\ phase[j] = "mounted") =>
              /\ phase[i] = "removed"
              /\ Cardinality({k \in 1..Len(log[i]) :
                                /\ log[i][k].op = "removeLayer"
                                /\ log[i][k].inst = ellipseRef[i]}) = 1
              /\ \A c \in Containers : ellipseRef[i] \notin layers[c]
              /\ ellipseRef[j] # ellipseRef[i]
              /\ Len(Calls(j, "new")) >= 1
              /\ ellipseRef[j] \in layers[pinned[j]]
              /\ renders[j] = 1 => inst[ellipseRef[j]] = NewEllipse(props[j])

\* C20's case: Map changed a city's tilt; the old Ellipse is detached, its
\* Popup unbound, and the new one is attached with its Popup bound.
C20_Witness ==
  /\ impl = "createPath"
  /\ \E i \in Ellipses :
       /\ successor[i] \notin {0, i}
       /\ phase[i] = "removed"
       /\ pending[i] = <<>>
       /\ phase[successor[i]] = "mounted"
       /\ pending[successor[i]] = <<>>
       /\ popup[successor[i]] = ellipseRef[successor[i]]
       /\ inst[ellipseRef[successor[i]]].tilt # inst[ellipseRef[i]].tilt

====
